---- MODULE Spec2Model ----
(***************************************************************************)
(* Model of map_converter.py: convert_image_to_ascii(image_path,          *)
(* output_path) loads an image, scans it row by row, maps every pixel to  *)
(* a terrain character and writes the rows, newline-joined, to a text     *)
(* file.                                                                   *)
(*                                                                         *)
(* Spec     : one caller invoking the function again and again             *)
(*            (process 1; process 2 never starts).                         *)
(* SpecConc : two invocations running at the same time on the same         *)
(*            output path, each once.                                      *)
(*                                                                         *)
(* Text is a sequence of one-character strings; NL is the newline.        *)
(***************************************************************************)
EXTENDS Integers, Sequences, FiniteSets, TLC

VARIABLES
    fs_img,     \* fs_img[p]: what the filesystem holds at invocation p's image_path
    out,        \* the file at output_path: [exists, data]
    oplog,      \* the opens and physical writes output_path has seen, in order
    prev,       \* how the caller's previous invocation ended: [ran, ok, data]
    pc,         \* pc[p]: stage of invocation p
    img,        \* img[p]: the decoded RGB image (line 25)
    width,      \* width[p], height[p]: img.size (line 26)
    height,
    x,          \* x[p], y[p]: the loop indices (lines 28, 30)
    y,
    row,        \* row[p]: the row under construction (line 29)
    ascii_art,  \* ascii_art[p]: the rows built so far (line 21)
    f,          \* f[p]: the output handle of the with block (line 37)
    exc,        \* exc[p]: the exception the try block raised, if any
    msgs        \* msgs[p]: what invocation p has printed

vars == <<fs_img, out, oplog, prev, pc, img, width, height, x, y, row,
          ascii_art, f, exc, msgs>>

locals == <<img, width, height, x, y, row, ascii_art>>

-----------------------------------------------------------------------------
(* Bounds of the model *)

MaxW == 2
MaxH == 2
MaxPixels == 4

Procs == {1, 2}

-----------------------------------------------------------------------------
(* Colours *)

Red      == <<255, 0, 0>>
Greenish == <<155, 208, 138>>
White    == <<255, 255, 255>>
Brown    == <<97, 68, 44>>
Gray     == <<141, 141, 141>>

\* Value of one hexadecimal digit.
HexDigit(c) ==
    CASE c = "0" -> 0  [] c = "1" -> 1  [] c = "2" -> 2  [] c = "3" -> 3
      [] c = "4" -> 4  [] c = "5" -> 5  [] c = "6" -> 6  [] c = "7" -> 7
      [] c = "8" -> 8  [] c = "9" -> 9  [] c = "a" -> 10 [] c = "b" -> 11
      [] c = "c" -> 12 [] c = "d" -> 13 [] c = "e" -> 14 [] c = "f" -> 15

\* The (r, g, b) triple a six-digit hex colour denotes.
HexColor(h) ==
    << 16 * HexDigit(h[1]) + HexDigit(h[2]),
       16 * HexDigit(h[3]) + HexDigit(h[4]),
       16 * HexDigit(h[5]) + HexDigit(h[6]) >>

\* The hex codes the comments of color_map give, one per entry.
hex_red      == <<"f", "f", "0", "0", "0", "0">>
hex_greenish == <<"9", "b", "d", "0", "8", "a">>
hex_white    == <<"f", "f", "f", "f", "f", "f">>
hex_brown    == <<"6", "1", "4", "4", "2", "c">>
hex_gray     == <<"8", "c", "8", "c", "8", "c">>

color_map ==
    (Red :> "D") @@ (Greenish :> "S") @@ (White :> "C") @@ (Brown :> "B")
        @@ (Gray :> "R")

default_char == "S"

\* dict.get(key, default)
DictGet(d, key, default) == IF key \in DOMAIN d THEN d[key] ELSE default

\* Variant: the nearest key within one step per channel is taken before the
\* default.
CharOfClosest(rgb) ==
    LET near == { k \in DOMAIN color_map :
                    \A i \in 1 .. 3 : k[i] - rgb[i] \in -1 .. 1 }
    IN  IF near = {} THEN default_char ELSE color_map[CHOOSE k \in near : TRUE]

\* char = color_map.get((r, g, b), default_char)
CharOf(rgb) == DictGet(color_map, rgb, default_char)

Black == <<0, 0, 0>>

\* The colours pixels are drawn from: every key of color_map, the colour the
\* Gray entry's hex code denotes, and black.
Colors == {Red, Greenish, White, Brown, Gray, HexColor(hex_gray), Black}

NL == "\n"

-----------------------------------------------------------------------------
(* Images and files *)

Coords(w, h) == (0 .. w - 1) \X (0 .. h - 1)

\* All RGB images of the bounded sizes with pixels among colors.
Images(colors) ==
    UNION { { [kind |-> "image", mode |-> "RGB", w |-> w, h |-> h, pix |-> p] :
                p \in [Coords(w, h) -> colors] } :
            <<w, h>> \in { s \in (0 .. MaxW) \X (0 .. MaxH) :
                             s[1] * s[2] <= MaxPixels } }

\* The RGBA image whose pixels are those of RGB image im, each with alpha a.
WithAlpha(im, a) ==
    [im EXCEPT !.mode = "RGBA",
               !.pix = [c \in DOMAIN im.pix |-> Append(im.pix[c], a)]]

\* The image files: RGB, and RGBA with every pixel fully transparent.
ImageFiles(colors) ==
    Images(colors) \cup { WithAlpha(im, 0) : im \in Images(colors) }

\* img.convert('RGB'): the red, green and blue channels are kept, any other
\* channel is dropped.
ConvertRGB(im) ==
    [im EXCEPT !.mode = "RGB",
               !.pix = [c \in DOMAIN im.pix |-> SubSeq(im.pix[c], 1, 3)]]

\* A path that holds no decodable image: missing, not an image, or unreadable.
NoImage(kind) ==
    [kind |-> kind, mode |-> "", w |-> 0, h |-> 0, pix |-> [c \in {} |-> Red]]

NoImages == { NoImage("missing"), NoImage("corrupt"), NoImage("denied") }

image_path(p) == IF p = 1 THEN "map.png" ELSE "map2.png"
output_path == "map.txt"

NoFile == [exists |-> FALSE, data |-> <<>>]
File(data) == [exists |-> TRUE, data |-> data]

\* What output_path may hold before the first invocation: nothing, or an
\* older map.
OldMap == <<"R", "R", "R", NL, "R", "R", "R", NL, "R", "R", "R">>
InitialOut == { NoFile, File(OldMap) }

-----------------------------------------------------------------------------
(* Text *)

RECURSIVE JoinTrailing(_)
\* Variant: every row is followed by a newline, the last one too.
JoinTrailing(rows) ==
    IF rows = <<>> THEN <<>>
    ELSE rows[1] \o <<NL>> \o JoinTrailing(Tail(rows))

RECURSIVE Join(_)
\* '\n'.join(rows)
Join(rows) ==
    IF rows = <<>> THEN <<>>
    ELSE IF Len(rows) = 1 THEN rows[1]
    ELSE rows[1] \o <<NL>> \o Join(Tail(rows))

\* The zero byte.
NUL == "NUL"

Max(a, b) == IF a >= b THEN a ELSE b

\* The content of a file after data is written at offset pos of content old;
\* a gap past the old end reads as zero bytes.
PWrite(old, pos, data) ==
    [i \in 1 .. Max(Len(old), pos + Len(data)) |->
        IF i > pos /\ i <= pos + Len(data) THEN data[i - pos]
        ELSE IF i <= Len(old) THEN old[i]
        ELSE NUL]

-----------------------------------------------------------------------------
(* Exceptions and messages *)

NoExc == [type |-> "None", at |-> "none", filename |-> ""]

\* What Image.open(image_path).convert('RGB') raises on a path without a
\* decodable image.
LoadError(p) ==
    [type |-> CASE fs_img[p].kind = "missing" -> "FileNotFoundError"
                [] fs_img[p].kind = "corrupt" -> "UnidentifiedImageError"
                [] OTHER -> "PermissionError",
     at |-> "load", filename |-> image_path(p)]

\* What img.getpixel raises when the pixel cannot be read.
PixelError == [type |-> "Exception", at |-> "scan", filename |-> ""]

\* What open(output_path, 'w') raises: the parent directory is missing, or
\* the path may not be written.
OpenErrors ==
    { [type |-> "FileNotFoundError", at |-> "open", filename |-> output_path],
      [type |-> "PermissionError", at |-> "open", filename |-> output_path] }

\* What the flush at the end of the with block raises on a full disk.
FlushError == [type |-> "OSError", at |-> "flush", filename |-> output_path]

\* line 40
SuccessMsg(p) ==
    [kind |-> "Success", image |-> image_path(p), out |-> output_path,
     err |-> NoExc]
\* line 43
NotFoundMsg(p) ==
    [kind |-> "NotFound", image |-> image_path(p), out |-> "", err |-> NoExc]
\* line 45
UnexpectedMsg(e) ==
    [kind |-> "Unexpected", image |-> "", out |-> "", err |-> e]

\* Variant: a single catch-all clause.
ExceptGeneric(p, e) == <<UnexpectedMsg(e)>>

\* Variant: the exception is swallowed.
ExceptSilent(p, e) == <<>>

\* The except clauses, tried in order (lines 42-45): what gets printed
\* when the try block raises e.
Except(p, e) ==
    IF e.type = "FileNotFoundError" THEN <<NotFoundMsg(p)>>
    ELSE <<UnexpectedMsg(e)>>

-----------------------------------------------------------------------------
(* The invocation *)

NoHandle == [state |-> "none", pos |-> 0, buf |-> <<>>, wrote |-> FALSE,
             flushed |-> FALSE]

Unset(v, p, val) == v' = [v EXCEPT ![p] = val]

\* The function's frame is gone once it returns: its locals hold nothing.
DropFrame(p) ==
    /\ Unset(img, p, NoImage("none"))
    /\ Unset(width, p, 0)
    /\ Unset(height, p, 0)
    /\ Unset(x, p, 0)
    /\ Unset(y, p, 0)
    /\ Unset(row, p, <<>>)
    /\ Unset(ascii_art, p, <<>>)

\* The try block raises e: the matching except clause prints, and the
\* function returns.
Raise(p, e) ==
    /\ pc' = [pc EXCEPT ![p] = "Failed"]
    /\ exc' = [exc EXCEPT ![p] = e]
    /\ msgs' = [msgs EXCEPT ![p] = @ \o Except(p, e)]
    /\ DropFrame(p)

\* Variant: the output file is opened for writing before the image loads.
StartOpenFirst(p) ==
    /\ pc[p] = "NotStarted"
    /\ pc' = [pc EXCEPT ![p] = "Loading"]
    /\ ascii_art' = [ascii_art EXCEPT ![p] = <<>>]
    /\ out' = File(<<>>)
    /\ UNCHANGED <<fs_img, oplog, prev, img, width, height, x, y, row,
                   f, exc, msgs>>

\* Lines 13-23: the call binds color_map, default_char and ascii_art and
\* enters the try block.
Start(p) ==
    /\ pc[p] = "NotStarted"
    /\ pc' = [pc EXCEPT ![p] = "Loading"]
    /\ ascii_art' = [ascii_art EXCEPT ![p] = <<>>]
    /\ UNCHANGED <<fs_img, out, oplog, prev, img, width, height, x, y, row,
                   f, exc, msgs>>

\* img.size
ImgSize(im) == <<im.w, im.h>>

\* Lines 25-26: the image opens and decodes; img.size gives (width, height).
Load(p) ==
    /\ pc[p] = "Loading"
    /\ fs_img[p].kind = "image"
    /\ img' = [img EXCEPT ![p] = ConvertRGB(fs_img[p])]
    /\ width' = [width EXCEPT ![p] = ImgSize(fs_img[p])[1]]
    /\ height' = [height EXCEPT ![p] = ImgSize(fs_img[p])[2]]
    /\ x' = [x EXCEPT ![p] = 0]
    /\ y' = [y EXCEPT ![p] = 0]
    /\ row' = [row EXCEPT ![p] = <<>>]
    /\ pc' = [pc EXCEPT ![p] = "Scanning"]
    /\ UNCHANGED <<fs_img, out, oplog, prev, ascii_art, f, exc, msgs>>

\* Line 25 raises: the path is missing, unreadable or no image.
LoadFail(p) ==
    /\ pc[p] = "Loading"
    /\ fs_img[p].kind # "image"
    /\ Raise(p, LoadError(p))
    /\ UNCHANGED <<fs_img, out, oplog, prev, f>>

\* img.getpixel((x, y))
GetPixelAt(im, px, py) == im.pix[<<px, py>>]

\* Lines 31-34: one pixel is read, mapped and appended to the row.
GetPixel(p) ==
    /\ pc[p] = "Scanning"
    /\ y[p] < height[p]
    /\ x[p] < width[p]
    /\ row' = [row EXCEPT ![p] = Append(@, CharOf(GetPixelAt(img[p], x[p], y[p])))]
    /\ x' = [x EXCEPT ![p] = @ + 1]
    /\ UNCHANGED <<fs_img, out, oplog, prev, pc, img, width, height, y,
                   ascii_art, f, exc, msgs>>

\* Line 31 raises.
ScanFail(p) ==
    /\ pc[p] = "Scanning"
    /\ y[p] < height[p]
    /\ x[p] < width[p]
    /\ Raise(p, PixelError)
    /\ UNCHANGED <<fs_img, out, oplog, prev, f>>

\* Lines 35, 28-29: the inner loop is over; the row joins ascii_art and the
\* next row starts empty.
AppendRow(p) ==
    /\ pc[p] = "Scanning"
    /\ y[p] < height[p]
    /\ x[p] = width[p]
    /\ ascii_art' = [ascii_art EXCEPT ![p] = Append(@, row[p])]
    /\ y' = [y EXCEPT ![p] = @ + 1]
    /\ x' = [x EXCEPT ![p] = 0]
    /\ row' = [row EXCEPT ![p] = <<>>]
    /\ UNCHANGED <<fs_img, out, oplog, prev, pc, img, width, height, f, exc,
                   msgs>>

\* Variant: the scan may stop before the last row.
EndScanEarly(p) ==
    /\ pc[p] = "Scanning"
    /\ x[p] = 0
    /\ pc' = [pc EXCEPT ![p] = "Writing"]
    /\ UNCHANGED <<fs_img, out, oplog, prev, locals, f, exc, msgs>>

\* Line 28: range(height) is exhausted; control reaches the with statement.
EndScan(p) ==
    /\ pc[p] = "Scanning"
    /\ y[p] = height[p]
    /\ pc' = [pc EXCEPT ![p] = "Writing"]
    /\ UNCHANGED <<fs_img, out, oplog, prev, locals, f, exc, msgs>>

\* Variant: mode 'a'; the content is kept and the handle starts at its end.
OpenOutAppend(p) ==
    /\ pc[p] = "Writing"
    /\ f[p].state = "none"
    /\ out' = File(out.data)
    /\ f' = [f EXCEPT ![p] = [NoHandle EXCEPT !.state = "open",
                                              !.pos = Len(out.data)]]
    /\ oplog' = Append(oplog, <<p, "open">>)
    /\ UNCHANGED <<fs_img, prev, pc, locals, exc, msgs>>

\* Variant: the file is created when missing but never truncated.
OpenOutNoTrunc(p) ==
    /\ pc[p] = "Writing"
    /\ f[p].state = "none"
    /\ out' = File(out.data)
    /\ f' = [f EXCEPT ![p] = [NoHandle EXCEPT !.state = "open"]]
    /\ oplog' = Append(oplog, <<p, "open">>)
    /\ UNCHANGED <<fs_img, prev, pc, locals, exc, msgs>>

\* Line 37: open(output_path, 'w') creates the file or truncates it, and
\* hands back a handle at offset 0.
OpenOut(p) ==
    /\ pc[p] = "Writing"
    /\ f[p].state = "none"
    /\ out' = File(<<>>)
    /\ f' = [f EXCEPT ![p] = [NoHandle EXCEPT !.state = "open"]]
    /\ oplog' = Append(oplog, <<p, "open">>)
    /\ UNCHANGED <<fs_img, prev, pc, locals, exc, msgs>>

\* Line 37 raises.
OpenOutFail(p) ==
    /\ pc[p] = "Writing"
    /\ f[p].state = "none"
    /\ \E e \in OpenErrors : Raise(p, e)
    /\ UNCHANGED <<fs_img, out, oplog, prev, f>>

\* Line 38: f.write('\n'.join(ascii_art)); the text waits in the handle's
\* buffer.
WriteText(p) ==
    /\ pc[p] = "Writing"
    /\ f[p].state = "open"
    /\ ~f[p].wrote
    /\ f' = [f EXCEPT ![p] = [@ EXCEPT !.buf = Join(ascii_art[p]),
                                       !.wrote = TRUE]]
    /\ UNCHANGED <<fs_img, out, oplog, prev, pc, locals, exc, msgs>>

\* Lines 37-38, leaving the with block: the buffer is written to the file
\* at the handle's offset and the handle is closed.
CloseOut(p) ==
    /\ pc[p] = "Writing"
    /\ f[p].state = "open"
    /\ f[p].wrote
    /\ out' = File(PWrite(out.data, f[p].pos, f[p].buf))
    /\ f' = [f EXCEPT ![p] = [state |-> "closed",
                              pos |-> f[p].pos + Len(f[p].buf),
                              buf |-> <<>>, wrote |-> TRUE, flushed |-> TRUE]]
    /\ oplog' = Append(oplog, <<p, "write">>)
    /\ UNCHANGED <<fs_img, prev, pc, locals, exc, msgs>>

\* Leaving the with block, the flush raises after k characters reached the
\* file; the handle is closed all the same.
CloseFail(p) ==
    /\ pc[p] = "Writing"
    /\ f[p].state = "open"
    /\ f[p].wrote
    /\ \E k \in 0 .. Len(f[p].buf) - 1 :
          /\ out' = File(PWrite(out.data, f[p].pos, SubSeq(f[p].buf, 1, k)))
          /\ f' = [f EXCEPT ![p] = [state |-> "closed", pos |-> f[p].pos + k,
                                    buf |-> <<>>, wrote |-> TRUE,
                                    flushed |-> FALSE]]
    /\ oplog' = Append(oplog, <<p, "write">>)
    /\ Raise(p, FlushError)
    /\ UNCHANGED <<fs_img, prev>>

\* Line 40: the confirmation is printed and the function returns.
Report(p) ==
    /\ pc[p] = "Writing"
    /\ f[p].state = "closed"
    /\ msgs' = [msgs EXCEPT ![p] = Append(@, SuccessMsg(p))]
    /\ pc' = [pc EXCEPT ![p] = "Done"]
    /\ DropFrame(p)
    /\ UNCHANGED <<fs_img, out, oplog, prev, f, exc>>

\* Line 51: the caller invokes the function again, on the same paths.
Reinvoke(p) ==
    /\ pc[p] \in {"Done", "Failed"}
    /\ prev' = [ran |-> TRUE, ok |-> pc[p] = "Done",
                data |-> IF pc[p] = "Done" THEN out.data ELSE <<>>]
    /\ pc' = [pc EXCEPT ![p] = "NotStarted"]
    /\ f' = [f EXCEPT ![p] = NoHandle]
    /\ exc' = [exc EXCEPT ![p] = NoExc]
    /\ msgs' = [msgs EXCEPT ![p] = <<>>]
    /\ oplog' = <<>>
    /\ UNCHANGED <<fs_img, out, locals>>

-----------------------------------------------------------------------------
(* Specifications *)

InitLocal ==
    /\ oplog = <<>>
    /\ prev = [ran |-> FALSE, ok |-> FALSE, data |-> <<>>]
    /\ pc = [p \in Procs |-> "NotStarted"]
    /\ img = [p \in Procs |-> NoImage("none")]
    /\ width = [p \in Procs |-> 0]
    /\ height = [p \in Procs |-> 0]
    /\ x = [p \in Procs |-> 0]
    /\ y = [p \in Procs |-> 0]
    /\ row = [p \in Procs |-> <<>>]
    /\ ascii_art = [p \in Procs |-> <<>>]
    /\ f = [p \in Procs |-> NoHandle]
    /\ exc = [p \in Procs |-> NoExc]
    /\ msgs = [p \in Procs |-> <<>>]

\* One caller: image_path holds any bounded image or none.
Init ==
    /\ \E i \in ImageFiles(Colors) \cup NoImages :
          fs_img = [p \in Procs |-> IF p = 1 THEN i ELSE NoImage("missing")]
    /\ out \in InitialOut
    /\ InitLocal

Next ==
    \/ Start(1)
    \/ Load(1)
    \/ LoadFail(1)
    \/ GetPixel(1)
    \/ ScanFail(1)
    \/ AppendRow(1)
    \/ EndScan(1)
    \/ OpenOut(1)
    \/ OpenOutFail(1)
    \/ WriteText(1)
    \/ CloseOut(1)
    \/ CloseFail(1)
    \/ Report(1)
    \/ Reinvoke(1)

Spec == Init /\ [][Next]_vars

\* The colour of every pixel of invocation p's image in the concurrent runs.
ConcColor(p) == IF p = 1 THEN Red ELSE White

\* Two callers at once, each with an image of its own.
InitConc ==
    /\ fs_img \in [Procs -> UNION { Images({ConcColor(p)}) : p \in Procs }
                                \cup NoImages]
    /\ \A p \in Procs : \A c \in DOMAIN fs_img[p].pix :
          fs_img[p].pix[c] = ConcColor(p)
    /\ out \in InitialOut
    /\ InitLocal

NextConc ==
    \E p \in Procs :
        \/ Start(p)
        \/ Load(p)
        \/ LoadFail(p)
        \/ GetPixel(p)
        \/ ScanFail(p)
        \/ AppendRow(p)
        \/ EndScan(p)
        \/ OpenOut(p)
        \/ OpenOutFail(p)
        \/ WriteText(p)
        \/ CloseOut(p)
        \/ CloseFail(p)
        \/ Report(p)

SpecConc == InitConc /\ [][NextConc]_vars

-----------------------------------------------------------------------------
(* Properties *)

TerrainChars == {"D", "S", "C", "B", "R"}

\* The red, green and blue channels of a stored pixel.
RGBOf(pixel) == <<pixel[1], pixel[2], pixel[3]>>

\* 1-based offset in the output text of column px of line py, for rows of
\* w characters.
TextIndex(w, px, py) == py * (w + 1) + px + 1

\* C1: once a conversion of a W x H image has succeeded, output_path holds
\* H rows of W terrain characters each, one newline between consecutive rows
\* and none after the last (the empty text when H = 0).
C1_Shape ==
    pc[1] = "Done" =>
        LET w == fs_img[1].w
            h == fs_img[1].h
            d == out.data
        IN  /\ out.exists
            /\ Len(d) = IF h = 0 THEN 0 ELSE h * w + (h - 1)
            /\ \A i \in 1 .. Len(d) :
                  IF i % (w + 1) = 0 THEN d[i] = NL ELSE d[i] \in TerrainChars

C1_Witness ==
    /\ pc[1] = "Done"
    /\ fs_img[1].w = 2
    /\ fs_img[1].h = 2
    /\ Len(out.data) = 5
    /\ out.data[3] = NL

C3_SourceNotFound ==
    fs_img[1].kind = "missing" =>
        /\ pc[1] \in {"NotStarted", "Loading", "Failed"}
        /\ \A i \in 1 .. Len(msgs[1]) : msgs[1][i].kind # "Success"
        /\ pc[1] = "Failed" =>
              /\ Len(msgs[1]) = 1
              /\ msgs[1][1].kind = "NotFound"
              /\ msgs[1][1].image = image_path(1)

C3_Witness ==
    /\ fs_img[1].kind = "missing"
    /\ pc[1] = "Failed"
    /\ msgs[1] = <<NotFoundMsg(1)>>

\* C4: the not-found message is printed only when image_path cannot be
\* located or opened; a failure while opening or writing output_path is
\* reported as Unexpected with the failure's description.
C4_WriteFailureUnexpected ==
    pc[1] = "Failed" =>
        /\ (\E i \in 1 .. Len(msgs[1]) : msgs[1][i].kind = "NotFound")
              => exc[1].at = "load" /\ fs_img[1].kind \in {"missing", "denied"}
        /\ exc[1].at \in {"open", "flush"}
              => msgs[1] = <<UnexpectedMsg(exc[1])>>

\* C5: no step an invocation takes before the write step, a failing step
\* included, changes the file at output_path: no file appears, and an
\* existing file keeps its content.
C5_NoWriteBeforeWriting ==
    [][pc[1] \in {"NotStarted", "Loading", "Scanning"} => out' = out]_vars

C5_Witness ==
    /\ pc[1] = "Failed"
    /\ exc[1].at = "scan"
    /\ ~prev.ran
    /\ out = File(OldMap)

\* The stage order: one stage forward, or to Failed from a stage that is
\* neither Done nor Failed.
StageStep(s, t) ==
    \/ t = s
    \/ <<s, t>> \in { <<"NotStarted", "Loading">>, <<"Loading", "Scanning">>,
                      <<"Scanning", "Writing">>, <<"Writing", "Done">> }
    \/ s \notin {"Done", "Failed"} /\ t = "Failed"

\* C6: apart from the caller starting a new invocation, every step keeps
\* the stage or moves it along NotStarted, Loading, Scanning, Writing, Done,
\* or to Failed from a stage before Done; and the output is opened only in
\* stage Writing with every row of the image scanned.
C6_Stages ==
    [][ /\ ~Reinvoke(1) => StageStep(pc[1], pc'[1])
        /\ (f[1].state = "none" /\ f'[1].state # "none") =>
              /\ pc[1] = "Writing"
              /\ Len(ascii_art[1]) = fs_img[1].h
              /\ \A r \in 1 .. Len(ascii_art[1]) :
                    Len(ascii_art[1][r]) = fs_img[1].w
        /\ out' # out => pc[1] = "Writing" ]_vars

C6_Witness ==
    /\ pc[1] = "Writing"
    /\ f[1].state = "open"
    /\ fs_img[1].w = 2
    /\ fs_img[1].h = 2
    /\ Len(ascii_art[1]) = 2

\* The text a successful conversion of image im writes.
AsciiText(im) ==
    Join([r \in 1 .. im.h |->
            [c \in 1 .. im.w |-> CharOf(RGBOf(im.pix[<<c - 1, r - 1>>]))]])

BothDone == \A p \in Procs : pc[p] = "Done"

\* Position in oplog of invocation p's open or write.
OpAt(p, op) == CHOOSE i \in 1 .. Len(oplog) : oplog[i] = <<p, op>>

\* The invocation whose write came last, and the other one.
LastWriter == oplog[Len(oplog)][1]
FirstWriter == CHOOSE p \in Procs : p # LastWriter

\* C7 as stated: when two simultaneous invocations on the same output_path
\* have both succeeded, the file holds exactly the output of the invocation
\* that wrote last.
C7_LastWriterWins ==
    BothDone => out.data = AsciiText(fs_img[LastWriter])

\* C7 amended: the file holds the output of the invocation that wrote last,
\* followed, when the other invocation's write fell after the last writer's
\* open, by what the other's output has beyond that length.
C7_LastWriterPrefix ==
    BothDone =>
        LET tl == AsciiText(fs_img[LastWriter])
            tf == AsciiText(fs_img[FirstWriter])
        IN  out.data =
                IF OpAt(FirstWriter, "write") > OpAt(LastWriter, "open")
                THEN tl \o SubSeq(tf, Len(tl) + 1, Len(tf))
                ELSE tl

C7_Witness ==
    /\ BothDone
    /\ OpAt(FirstWriter, "write") > OpAt(LastWriter, "open")
    /\ Len(AsciiText(fs_img[FirstWriter])) > Len(AsciiText(fs_img[LastWriter]))
    /\ Len(AsciiText(fs_img[LastWriter])) > 0
    /\ Len(out.data) = Len(AsciiText(fs_img[FirstWriter]))

\* C8: when the caller's previous invocation succeeded and the next one,
\* on the same image and output_path, succeeds too, the file's content after
\* the second equals its content after the first.
C8_SameOutputTwice ==
    (prev.ok /\ pc[1] = "Done") => out.data = prev.data

C8_Witness ==
    /\ prev.ok
    /\ pc[1] = "Done"
    /\ fs_img[1].w = 2
    /\ fs_img[1].h = 2
    /\ Len(out.data) = 5
    /\ out.data = prev.data

\* C9: a pixel of the Gray entry's decimal colour (141, 141, 141) and a
\* pixel of its hex colour 8c8c8c both come out as 'R'.
C9_GrayDecimalAndHex ==
    pc[1] = "Done" =>
        \A c \in Coords(fs_img[1].w, fs_img[1].h) :
            RGBOf(fs_img[1].pix[c]) \in {Gray, HexColor(hex_gray)}
                => out.data[TextIndex(fs_img[1].w, c[1], c[2])] = "R"

\* The write to output_path completed: the handle was closed with the whole
\* text in the file.
WriteCompleted(p) == f[p].state = "closed" /\ f[p].flushed

\* C10: an invocation that has ended has printed exactly one message, the
\* success confirmation naming both paths if and only if the write
\* completed and an error message otherwise; an invocation that has not
\* ended has printed nothing.
C10_OneOutcome ==
    /\ pc[1] \notin {"Done", "Failed"} => msgs[1] = <<>>
    /\ pc[1] \in {"Done", "Failed"} =>
          /\ Len(msgs[1]) = 1
          /\ msgs[1][1].kind \in {"Success", "NotFound", "Unexpected"}
          /\ msgs[1][1].kind = "Success" <=> WriteCompleted(1)
          /\ msgs[1][1].kind = "Success" =>
                /\ pc[1] = "Done"
                /\ exc[1] = NoExc
                /\ msgs[1][1].image = image_path(1)
                /\ msgs[1][1].out = output_path
          /\ pc[1] = "Failed" => exc[1] # NoExc

C10_Witness ==
    /\ pc[1] = "Failed"
    /\ exc[1].at = "flush"
    /\ msgs[1] = <<UnexpectedMsg(FlushError)>>
    /\ ~WriteCompleted(1)

====
